---- MODULE Spec2Model ----
(***************************************************************************)
(* Model of the Intelligent-Rag-Assistant backend.                         *)
(*                                                                         *)
(*   Spec         backend/rag_pipeline.py  (class RAGPipeline)             *)
(*   SpecRace     backend/rag_pipeline.py  (add_document from two threads) *)
(*   SpecChunk    backend/rag_pipeline.py  (chunk_text, pass by pass)      *)
(*   SpecEmbed    backend/rag_pipeline.py  (generate_embeddings)           *)
(*   SpecMain     backend/main.py          (chat / upload / delete)        *)
(*   SpecWorking  backend/working_main.py  (chat with retry loop, upload)  *)
(*   SpecSimple   backend/simple_main.py   (register, login, upload)       *)
(*   SpecSearch   backend/rag_pipeline.py  (search_relevant_chunks)        *)
(*                                                                         *)
(* A text is a string over the three character classes the code tells      *)
(* apart: '.', ' ' and any other character.  It is the record              *)
(*   [len, dots, spaces]  with 0-based positions, as Python indexes them.  *)
(* An exception is a record [text, marks]: its message and the markers the *)
(* code looks for in that message with the `in` operator.                  *)
(***************************************************************************)
EXTENDS Integers, Sequences, FiniteSets, TLC

VARIABLES collections,     \* rag_pipeline: chroma_client, user -> collection
          nextUuid,        \* rag_pipeline: number of uuid4() values drawn
          gemini_model,    \* main / working_main: module global, TRUE = configured
          user_documents,  \* main: module global dict user -> list of documents
          chroma_dirs,     \* main: ./chroma_db_<user> directories (vector stores)
          vector_store,    \* working_main: persisted Chroma store per user
          uploaded_content,\* working_main / simple_main: dict content id -> upload
          clock,           \* working_main / simple_main: int(time.time())
          users_db,        \* simple_main: module global dict email -> account
          tokens_db,       \* simple_main: module global dict token -> user_id
          last,            \* the call that completed last and what it gave back
          threads,         \* rag_pipeline: add_document calls running concurrently
          frame            \* the call of chunk_text / generate_embeddings under way

vars == <<collections, nextUuid, gemini_model, user_documents, chroma_dirs,
          vector_store, uploaded_content, clock, users_db, tokens_db, last,
          threads, frame>>

-----------------------------------------------------------------------------
(* Bounds *)

MaxDocs == 2       \* uuid4() values drawn by add_document
MaxUploads == 2    \* documents a user of main.py / working_main.py uploads
MaxCalls == 3      \* generation calls of one HTTP request whose outcome is drawn

Users == {"u1", "u2"}
Queries == {"q1"}

-----------------------------------------------------------------------------
(* Program constants *)

chunk_size == 1000
chunk_overlap == 200
max_context_length == 2000
top_k == 5
max_retries == 3
retriever_k == 3

-----------------------------------------------------------------------------
(* Texts *)

Text(n, d, s) == [len |-> n, dots |-> d, spaces |-> s]

Max(S) == CHOOSE x \in S : \A y \in S : y <= x

\* str.rfind(ch, start, end) for the positions P of ch; -1 when absent
rfind(P, start, end) ==
    LET In == {p \in P : start <= p /\ p < end}
    IN  IF In = {} THEN -1 ELSE Max(In)

\* text[start:end], Python slice semantics (end is clamped to len(text))
Slice(t, start, end) ==
    LET e == IF end > t.len THEN t.len ELSE end
        n == IF e > start THEN e - start ELSE 0
    IN  Text(n,
             {p - start : p \in {q \in t.dots : start <= q /\ q < e}},
             {p - start : p \in {q \in t.spaces : start <= q /\ q < e}})

Min(S) == CHOOSE x \in S : \A y \in S : x <= y

\* the first position at or after p that holds no whitespace (len if none):
\* p itself, or the position right after a whitespace character
lstrip_at(t, p) ==
    IF p >= t.len THEN t.len
    ELSE Min({q \in {p} \cup {w + 1 : w \in {v \in t.spaces : v >= p}} :
                 q \notin t.spaces})

\* one past the last position before p that holds no whitespace (0 if none):
\* p itself, or the position of a whitespace character
rstrip_at(t, p) ==
    IF p <= 0 THEN 0
    ELSE Max({q \in {0, p} \cup {v \in t.spaces : v < p} :
                 q = 0 \/ (q - 1) \notin t.spaces})

\* str.strip(): leading and trailing whitespace removed
strip(t) ==
    LET from == lstrip_at(t, 0)
    IN  IF from >= t.len THEN Text(0, {}, {})
        ELSE Slice(t, from, rstrip_at(t, t.len))

\* a window cut at the last '.' or ' ' after `start`, wherever in the window
\* it lies (the test against the middle of the window left out)
window_end_any_boundary(text, start) ==
    LET end == start + chunk_size
        sentence_end == rfind(text.dots, start, end)
        word_end == rfind(text.spaces, start, end)
    IN  IF end < text.len
        THEN IF sentence_end > start
             THEN sentence_end + 1
             ELSE IF word_end > start
                  THEN word_end
                  ELSE end
        ELSE end

\* where the window that starts at `start` ends
window_end(text, start) ==
    LET end == start + chunk_size
        sentence_end == rfind(text.dots, start, end)
        word_end == rfind(text.spaces, start, end)
    IN  IF end < text.len
        THEN IF sentence_end > start + (chunk_size \div 2)
             THEN sentence_end + 1
             ELSE IF word_end > start + (chunk_size \div 2)
                  THEN word_end
                  ELSE end
        ELSE end

\* a loop body that keeps the chunk without the `if chunk:` test
loop_body_keeps_empty(text, start, chunks) ==
    LET end == window_end(text, start)
        chunk == strip(Slice(text, start, end))
    IN  [end |-> end, chunk |-> chunk, chunks |-> Append(chunks, chunk),
         start |-> end - chunk_overlap]

\* a loop body that moves the start forward by the overlap instead of back
loop_body_skips(text, start, chunks) ==
    LET end == window_end(text, start)
        chunk == strip(Slice(text, start, end))
    IN  [end |-> end, chunk |-> chunk,
         chunks |-> IF chunk.len > 0 THEN Append(chunks, chunk) ELSE chunks,
         start |-> end + chunk_overlap]

\* a loop body that steps back by twice the overlap
loop_body_steps_back_twice(text, start, chunks) ==
    LET end == window_end(text, start)
        chunk == strip(Slice(text, start, end))
    IN  [end |-> end, chunk |-> chunk,
         chunks |-> IF chunk.len > 0 THEN Append(chunks, chunk) ELSE chunks,
         start |-> end - 2 * chunk_overlap]

\* one pass of the body of `while start < len(text)`: the window's end, the
\* chunk cut from it, the list after the pass and the next start
loop_body(text, start, chunks) ==
    LET end == window_end(text, start)
        chunk == strip(Slice(text, start, end))
    IN  [end |-> end, chunk |-> chunk,
         chunks |-> IF chunk.len > 0 THEN Append(chunks, chunk) ELSE chunks,
         start |-> end - chunk_overlap]

RECURSIVE chunk_loop(_, _, _)
chunk_loop(text, start, chunks) ==
    IF ~(start < text.len) THEN chunks
    ELSE LET b == loop_body(text, start, chunks)
         IN  IF b.start >= text.len THEN b.chunks
             ELSE chunk_loop(text, b.start, b.chunks)

chunk_text(text) ==
    IF text.len <= chunk_size THEN <<text>> ELSE chunk_loop(text, 0, <<>>)

-----------------------------------------------------------------------------
(* Exceptions raised by the external services *)

ErrApiKey  == [text |-> "400 API key not valid. Please pass a valid API key.",
               marks |-> {"API key not valid"}]
ErrQuota   == [text |-> "429 Quota exceeded for quota metric", marks |-> {"quota", "429"}]
Err429     == [text |-> "429 Too Many Requests", marks |-> {"429"}]
Err404     == [text |-> "404 models/gemini-1.5-flash is not found", marks |-> {"404"}]
ErrTimeout == [text |-> "Deadline exceeded: request timeout", marks |-> {"timeout"}]
ErrUnknown == [text |-> "Connection reset by peer", marks |-> {}]

Errors == {ErrApiKey, ErrQuota, Err429, Err404, ErrTimeout, ErrUnknown}

Ok == [text |-> "", marks |-> {"ok"}]

\* what one call of the generation service does: it answers or it raises
GenOutcomes == {Ok} \cup Errors

\* `marker in str(e)`
has(e, marker) == marker \in e.marks

-----------------------------------------------------------------------------
(* Response texts and generation calls *)

\* A response text: which fixed message or generated text it is (kind), the
\* generation call of the request that produced it (call, 0 = none), the raw
\* exception text interpolated into it (raw), and whether the API-limit note
\* was appended to it (note).
Msg(kind) == [kind |-> kind, call |-> 0, raw |-> "", note |-> FALSE]
Generated(n) == [kind |-> "generated", call |-> n, raw |-> "", note |-> FALSE]
WithRaw(kind, e) == [kind |-> kind, call |-> 0, raw |-> e.text, note |-> FALSE]
NoText == Msg("none")

PlainPrompt(query) == [kind |-> "plain", query |-> query, context |-> <<>>]
GroundedPrompt(query, context) ==
    [kind |-> "grounded", query |-> query, context |-> context]

Call(prompt, result) == [prompt |-> prompt, result |-> result]

\* generate_general_response whose last `else` re-raises instead of returning
generate_general_response_reraises(query, g, calls) ==
    LET made == Append(calls, Call(PlainPrompt(query), g))
        text == IF g = Ok THEN Generated(Len(made))
                ELSE IF has(g, "API key not valid") THEN Msg("check_api_key")
                ELSE IF has(g, "quota") \/ has(g, "429") THEN Msg("try_again_shortly")
                ELSE IF has(g, "404") THEN Msg("temporary_service_issue")
                ELSE IF has(g, "timeout") THEN Msg("timed_out")
                ELSE NoText
    IN  [raised |-> text = NoText, text |-> text, calls |-> made]

\* RAGPipeline.generate_general_response: one call, every exception caught
generate_general_response(query, g, calls) ==
    LET made == Append(calls, Call(PlainPrompt(query), g))
        text == IF g = Ok THEN Generated(Len(made))
                ELSE IF has(g, "API key not valid") THEN Msg("check_api_key")
                ELSE IF has(g, "quota") \/ has(g, "429") THEN Msg("try_again_shortly")
                ELSE IF has(g, "404") THEN Msg("temporary_service_issue")
                ELSE IF has(g, "timeout") THEN Msg("timed_out")
                ELSE WithRaw("encountered_error", g)
    IN  [raised |-> FALSE, text |-> text, calls |-> made]

-----------------------------------------------------------------------------
(* Embeddings *)

\* RAGPipeline.__init__ binds embedding_model to genai.embed_content; the
\* assignment cannot fail, so the remote tier is the configured one.
embedding_model_present == TRUE
use_fallback_embeddings == FALSE

\* what genai.embed_content does for one text: it answers or it raises
EmbedOutcomes == {Ok, ErrQuota, ErrUnknown}

Vector(tier, text) == [tier |-> tier, of |-> text]

\* how many floats a vector holds: _generate_hash_embeddings pads to 384,
\* all-MiniLM-L6-v2 encodes to 384, and result['embedding'] of
\* models/embedding-001 holds 768
hash_dim == 384
local_dim == 384
remote_dim == 768
Dimension(vector) ==
    IF vector.tier = "hash" THEN hash_dim
    ELSE IF vector.tier = "local" THEN local_dim
    ELSE remote_dim

_generate_hash_embeddings(texts) ==
    [i \in 1..Len(texts) |-> Vector("hash", texts[i])]

\* `"quota" in str(e).lower() or "429" in str(e)`
IsQuota(e) == has(e, "quota") \/ has(e, "429")

\* the item at which the loop over texts is left by `raise e` (0: none)
FirstRaise(texts, outs) ==
    LET other == {i \in 1..Len(texts) : outs[i] # Ok /\ ~IsQuota(outs[i])}
    IN  IF other = {} THEN 0 ELSE Min(other)

\* a loop that re-raises whatever embed_content raises, a quota error too
embed_loop_raises_on_quota(texts, outs) ==
    LET failed == {i \in 1..Len(texts) : outs[i] # Ok}
        stop == IF failed = {} THEN 0 ELSE Min(failed)
        n == IF stop = 0 THEN Len(texts) ELSE stop - 1
    IN  [raised |-> stop # 0,
         sent |-> IF stop = 0 THEN Len(texts) ELSE stop,
         embeddings |-> [i \in 1..n |-> Vector("remote", texts[i])]]

\* `for text in texts:` with genai.embed_content in a try block.  outs[i]:
\* what embed_content does for texts[i]; sent: the items it was called for
embed_loop(texts, outs) ==
    LET stop == FirstRaise(texts, outs)
        n == IF stop = 0 THEN Len(texts) ELSE stop - 1
    IN  [raised |-> stop # 0,
         sent |-> IF stop = 0 THEN Len(texts) ELSE stop,
         embeddings |-> [i \in 1..n |->
                            IF outs[i] = Ok
                            THEN Vector("remote", texts[i])
                            ELSE _generate_hash_embeddings(<<texts[i]>>)[1]]]

Embedded(raised, embeddings, sent, tiers) ==
    [raised |-> raised, embeddings |-> embeddings, sent |-> sent,
     tiers |-> tiers]

\* generate_embeddings without its outer `except Exception`
generate_embeddings_no_outer_except(texts, outs) ==
    IF ~embedding_model_present
    THEN Embedded(FALSE, _generate_hash_embeddings(texts), 0, <<"hash">>)
    ELSE IF use_fallback_embeddings
    THEN Embedded(FALSE, [i \in 1..Len(texts) |-> Vector("local", texts[i])],
                  0, <<"local">>)
    ELSE LET r == embed_loop(texts, outs)
         IN  Embedded(r.raised, r.embeddings, r.sent, <<"remote">>)

\* RAGPipeline.generate_embeddings.  tiers: the tiers the call used, in order
generate_embeddings(texts, outs) ==
    IF ~embedding_model_present
    THEN Embedded(FALSE, _generate_hash_embeddings(texts), 0, <<"hash">>)
    ELSE IF use_fallback_embeddings
    THEN Embedded(FALSE, [i \in 1..Len(texts) |-> Vector("local", texts[i])],
                  0, <<"local">>)
    ELSE LET r == embed_loop(texts, outs)
         IN  IF r.raised
             THEN Embedded(FALSE, _generate_hash_embeddings(texts), r.sent,
                           <<"remote", "hash">>)
             ELSE Embedded(FALSE, r.embeddings, r.sent, <<"remote">>)

-----------------------------------------------------------------------------
(* Vector index: one collection per user *)

NoCollection == [exists |-> FALSE, chunks |-> <<>>]

Count(coll) == Len(coll.chunks)

\* a lookup that creates the collection it does not find
get_or_create_collection(coll) ==
    [raised |-> FALSE, coll |-> [coll EXCEPT !.exists = TRUE]]

\* RAGPipeline.get_user_collection: chroma_client.get_collection raises for a
\* name that is not there, and the except clause re-raises; coll: the
\* collection as the lookup leaves it
get_user_collection(coll) == [raised |-> ~coll.exists, coll |-> coll]

\* a lookup that stops at the first chunk of the document
ids_where_first(coll, content_id) ==
    LET all == {i \in 1..Count(coll) :
                   coll.chunks[i].metadata.content_id = content_id}
    IN  {i \in all : \A j \in all : i <= j}

\* collection.get(where={"content_id": content_id})['ids'], as positions
ids_where(coll, content_id) ==
    {i \in 1..Count(coll) : coll.chunks[i].metadata.content_id = content_id}

RECURSIVE Remove(_, _, _)
Remove(chunks, ids, i) ==
    IF i > Len(chunks) THEN <<>>
    ELSE IF i \in ids THEN Remove(chunks, ids, i + 1)
         ELSE <<chunks[i]>> \o Remove(chunks, ids, i + 1)

\* delete_document without the `if results['ids']` guard, on an index whose
\* delete with an empty id list removes everything
delete_document_unguarded(coll, content_id) ==
    IF ~coll.exists
    THEN [raised |-> TRUE, coll |-> coll]
    ELSE LET ids == ids_where(coll, content_id)
         IN  [raised |-> FALSE,
              coll |-> IF ids # {}
                       THEN [coll EXCEPT !.chunks = Remove(coll.chunks, ids, 1)]
                       ELSE [coll EXCEPT !.chunks = <<>>]]

\* RAGPipeline.delete_document
delete_document(coll, content_id) ==
    IF ~coll.exists
    THEN [raised |-> TRUE, coll |-> coll]
    ELSE LET ids == ids_where(coll, content_id)
         IN  [raised |-> FALSE,
              coll |-> IF ids # {}
                       THEN [coll EXCEPT !.chunks = Remove(coll.chunks, ids, 1)]
                       ELSE coll]

-----------------------------------------------------------------------------
(* Ingestion *)

Chunk(content_id, i, chunks, vectors, source, content_type) ==
    [id |-> <<content_id, i - 1>>,
     document |-> chunks[i],
     embedding |-> vectors[i],
     metadata |-> [content_id |-> content_id,
                   source |-> source,
                   content_type |-> content_type,
                   chunk_index |-> i - 1,
                   total_chunks |-> Len(chunks),
                   chunk_length |-> chunks[i].len]]

\* RAGPipeline.create_user_collection.  chroma_client.create_collection
\* raises for a name that is taken (get_or_create is not passed) and the
\* except clause re-raises; ok: whether the index answers at all
create_user_collection(coll, ok) ==
    IF coll.exists \/ ~ok
    THEN [raised |-> TRUE, coll |-> coll]
    ELSE [raised |-> FALSE, coll |-> [coll EXCEPT !.exists = TRUE]]

\* add_document that looks its collection up, and creates it, before it
\* validates its inputs
add_document_validates_late(user_id, content, source, content_type, coll, uuid, env) ==
    IF ~coll.exists /\ create_user_collection(coll, env.create_ok).raised
    THEN [raised |-> TRUE, content_id |-> 0, coll |-> coll, embedCalls |-> 0]
    ELSE LET collection == [coll EXCEPT !.exists = TRUE]
             chunks == chunk_text(content)
             generated == generate_embeddings(chunks, env.embed)
             embeddings == generated.embeddings
             added == [i \in 1..Len(chunks) |->
                          Chunk(uuid, i, chunks, embeddings, source, content_type)]
         IN  IF content.len = 0 \/ strip(content).len < 10 \/ user_id = ""
             THEN [raised |-> TRUE, content_id |-> 0, coll |-> collection,
                   embedCalls |-> 0]
             ELSE IF chunks = <<>>
             THEN [raised |-> TRUE, content_id |-> 0, coll |-> collection,
                   embedCalls |-> 0]
             ELSE IF generated.raised
             THEN [raised |-> TRUE, content_id |-> 0, coll |-> collection,
                   embedCalls |-> 1]
             ELSE IF ~env.add_ok
             THEN [raised |-> TRUE, content_id |-> uuid, coll |-> collection,
                   embedCalls |-> 1]
             ELSE [raised |-> FALSE, content_id |-> uuid,
                   coll |-> [collection EXCEPT !.chunks = @ \o added],
                   embedCalls |-> 1]

\* RAGPipeline.add_document.  uuid is the value uuid4() yields if it is
\* drawn; env.create_ok / env.add_ok: whether the index accepts
\* create_collection / collection.add; env.embed: the remote embedding
\* service's outcome for each chunk.
add_document(user_id, content, source, content_type, coll, uuid, env) ==
    IF content.len = 0 \/ strip(content).len < 10 \/ user_id = ""
    THEN [raised |-> TRUE, content_id |-> 0, coll |-> coll, embedCalls |-> 0]
    ELSE IF ~coll.exists /\ create_user_collection(coll, env.create_ok).raised
    THEN [raised |-> TRUE, content_id |-> 0, coll |-> coll, embedCalls |-> 0]
    ELSE LET collection == [coll EXCEPT !.exists = TRUE]
             chunks == chunk_text(content)
             generated == generate_embeddings(chunks, env.embed)
             embeddings == generated.embeddings
             added == [i \in 1..Len(chunks) |->
                          Chunk(uuid, i, chunks, embeddings, source, content_type)]
         IN  IF chunks = <<>>
             THEN [raised |-> TRUE, content_id |-> 0, coll |-> collection,
                   embedCalls |-> 0]
             ELSE IF generated.raised
             THEN [raised |-> TRUE, content_id |-> 0, coll |-> collection,
                   embedCalls |-> 1]
             ELSE IF ~env.add_ok
             THEN [raised |-> TRUE, content_id |-> uuid, coll |-> collection,
                   embedCalls |-> 1]
             ELSE [raised |-> FALSE, content_id |-> uuid,
                   coll |-> [collection EXCEPT !.chunks = @ \o added],
                   embedCalls |-> 1]

-----------------------------------------------------------------------------
(* Query path *)

\* the rankings collection.query may return: min(n, count) distinct stored
\* chunks (by position), in any order of distance
Rankings(coll, n) ==
    LET m == IF Count(coll) < n THEN Count(coll) ELSE n
    IN  {r \in [1..m -> 1..Count(coll)] :
            \A i, j \in 1..m : i # j => r[i] # r[j]}

\* RAGPipeline.search_relevant_chunks.  env.embed: the embedding service's
\* outcome for the query; env.query_ok: whether collection.query answers;
\* env.ranking: the positions it returns, nearest first.
search_relevant_chunks(coll, query, env) ==
    IF get_user_collection(coll).raised
    THEN [chunks |-> <<>>, embedCalls |-> 0, queryCalls |-> 0,
          vector |-> <<>>]
    ELSE LET query_embeddings ==
                 generate_embeddings(<<query>>, <<env.embed>>).embeddings
         IN  IF ~env.query_ok
             THEN [chunks |-> <<>>, embedCalls |-> 1, queryCalls |-> 1,
                   vector |-> query_embeddings]
             ELSE [chunks |-> [i \in 1..Len(env.ranking) |->
                                  [content |-> coll.chunks[env.ranking[i]].document,
                                   metadata |-> coll.chunks[env.ranking[i]].metadata,
                                   rank |-> i]],
                   embedCalls |-> 1, queryCalls |-> 1,
                   vector |-> query_embeddings]

\* a loop that tests the budget after it has taken the chunk
RECURSIVE taken_then_tested(_, _, _)
taken_then_tested(relevant_chunks, i, current_length) ==
    IF i > Len(relevant_chunks) THEN i - 1
    ELSE IF current_length > max_context_length
         THEN i - 1
         ELSE taken_then_tested(relevant_chunks, i + 1,
                                current_length + relevant_chunks[i].content.len)

\* the loop of generate_rag_response that fills context_parts and sources:
\* how many of the ranked chunks it takes before it breaks
RECURSIVE taken(_, _, _)
taken(relevant_chunks, i, current_length) ==
    IF i > Len(relevant_chunks) THEN i - 1
    ELSE IF current_length + relevant_chunks[i].content.len > max_context_length
         THEN i - 1
         ELSE taken(relevant_chunks, i + 1,
                    current_length + relevant_chunks[i].content.len)

SourceRef(chunk) == [source |-> chunk.metadata.source,
                     content_type |-> chunk.metadata.content_type,
                     rank |-> chunk.rank]

Result(raised, text, sources, calls, embedCalls, queryCalls) ==
    [raised |-> raised, text |-> text, sources |-> sources, calls |-> calls,
     embedCalls |-> embedCalls, queryCalls |-> queryCalls]

\* `return self.generate_general_response(query), []`
general_fallback(query, g, calls, embedCalls, queryCalls, note) ==
    LET general == generate_general_response(query, g, calls)
    IN  IF general.raised
        THEN Result(TRUE, NoText, <<>>, general.calls, embedCalls, queryCalls)
        ELSE Result(FALSE,
                    IF note THEN [general.text EXCEPT !.note = TRUE]
                    ELSE general.text,
                    <<>>, general.calls, embedCalls, queryCalls)

\* generate_rag_response without the `collection.count() == 0` test
generate_rag_response_no_count_test(query, coll, env) ==
    IF get_user_collection(coll).raised \/ ~env.count_ok
    THEN general_fallback(query, env.plain, <<>>, 0, 0, FALSE)
    ELSE LET found == search_relevant_chunks(coll, query, env)
             n == taken(found.chunks, 1, 0)
             sources == [i \in 1..n |-> SourceRef(found.chunks[i])]
             prompt == GroundedPrompt(query, [i \in 1..n |-> found.chunks[i].content])
         IN  IF n = 0
             THEN general_fallback(query, env.plain, <<>>,
                                   found.embedCalls, found.queryCalls, FALSE)
             ELSE IF env.grounded = Ok
             THEN Result(FALSE, Generated(1), sources, <<Call(prompt, Ok)>>,
                         found.embedCalls, found.queryCalls)
             ELSE general_fallback(query, env.plain,
                                   <<Call(prompt, env.grounded)>>,
                                   found.embedCalls, found.queryCalls,
                                   has(env.grounded, "quota"))

\* generate_rag_response whose outer except clause hands back the sources
\* collected before the grounded call failed
generate_rag_response_keeps_sources(query, coll, env) ==
    IF get_user_collection(coll).raised \/ ~env.count_ok
    THEN general_fallback(query, env.plain, <<>>, 0, 0, FALSE)
    ELSE IF Count(coll) = 0
    THEN general_fallback(query, env.plain, <<>>, 0, 0, FALSE)
    ELSE LET found == search_relevant_chunks(coll, query, env)
             relevant_chunks == found.chunks
             n == taken(relevant_chunks, 1, 0)
             context_parts == [i \in 1..n |-> relevant_chunks[i].content]
             sources == [i \in 1..n |-> SourceRef(relevant_chunks[i])]
             prompt == GroundedPrompt(query, context_parts)
         IN  IF relevant_chunks = <<>>
             THEN general_fallback(query, env.plain, <<>>,
                                   found.embedCalls, found.queryCalls, FALSE)
             ELSE IF context_parts = <<>>
             THEN general_fallback(query, env.plain, <<>>,
                                   found.embedCalls, found.queryCalls, FALSE)
             ELSE IF env.grounded = Ok
             THEN Result(FALSE, Generated(1), sources, <<Call(prompt, Ok)>>,
                         found.embedCalls, found.queryCalls)
             ELSE [general_fallback(query, env.plain,
                                    <<Call(prompt, env.grounded)>>,
                                    found.embedCalls, found.queryCalls,
                                    has(env.grounded, "quota"))
                      EXCEPT !.sources = sources]

\* RAGPipeline.generate_rag_response.  env.count_ok: whether
\* collection.count() answers; env.grounded / env.plain: what the generation
\* service does when called with the grounded / the plain prompt.
generate_rag_response(query, coll, env) ==
    IF get_user_collection(coll).raised \/ ~env.count_ok
    THEN general_fallback(query, env.plain, <<>>, 0, 0, FALSE)
    ELSE IF Count(coll) = 0
    THEN general_fallback(query, env.plain, <<>>, 0, 0, FALSE)
    ELSE LET found == search_relevant_chunks(coll, query, env)
             relevant_chunks == found.chunks
             n == taken(relevant_chunks, 1, 0)
             context_parts == [i \in 1..n |-> relevant_chunks[i].content]
             sources == [i \in 1..n |-> SourceRef(relevant_chunks[i])]
             prompt == GroundedPrompt(query, context_parts)
         IN  IF relevant_chunks = <<>>
             THEN general_fallback(query, env.plain, <<>>,
                                   found.embedCalls, found.queryCalls, FALSE)
             ELSE IF context_parts = <<>>
             THEN general_fallback(query, env.plain, <<>>,
                                   found.embedCalls, found.queryCalls, FALSE)
             ELSE IF env.grounded = Ok
             THEN Result(FALSE, Generated(1), sources, <<Call(prompt, Ok)>>,
                         found.embedCalls, found.queryCalls)
             ELSE general_fallback(query, env.plain,
                                   <<Call(prompt, env.grounded)>>,
                                   found.embedCalls, found.queryCalls,
                                   has(env.grounded, "quota"))

-----------------------------------------------------------------------------
(* Inputs *)

\* "The sky is blue. Water boils at 100C."
TxtSky == Text(37, {15, 36}, {3, 7, 10, 16, 22, 28, 31})
\* 1500 characters, one sentence end at 899 followed by a space
TxtLong == Text(1500, {899}, {900})
\* 1000 characters without any boundary: one chunk of chunk_size
TxtBlock == Text(1000, {}, {})
TxtEmpty == Text(0, {}, {})
\* "   abcdef   "
TxtTiny == Text(12, {}, {0, 1, 2, 9, 10, 11})

Upload(content, source, content_type) ==
    [content |-> content, source |-> source, content_type |-> content_type]

Uploads == {Upload(TxtSky, "sky.txt", "file"),
            Upload(TxtLong, "http://long", "url"),
            Upload(TxtBlock, "block.pdf", "file"),
            Upload(TxtEmpty, "empty.txt", "file"),
            Upload(TxtTiny, "tiny.txt", "file")}

MaxChunks == 3     \* chunks one collection holds

AddEnv(create_ok, add_ok, embed) ==
    [create_ok |-> create_ok, add_ok |-> add_ok, embed |-> embed]

\* the index fails at creation, or at the write, or not at all
AddEnvs(n) ==
    {AddEnv(FALSE, TRUE, [i \in 1..n |-> Ok])}
    \cup {AddEnv(TRUE, ok, e) : ok \in BOOLEAN, e \in [1..n -> EmbedOutcomes]}

RagEnv(count_ok, embed, query_ok, ranking, grounded, plain) ==
    [count_ok |-> count_ok, embed |-> embed, query_ok |-> query_ok,
     ranking |-> ranking, grounded |-> grounded, plain |-> plain]

GroundedErrors == {ErrQuota, ErrUnknown}

\* the outcomes of the steps of one query request; a step the request cannot
\* reach has its outcome fixed, and so has the embedding of the query where
\* the index answers: the ranking is drawn whatever the query vector is
RagEnvs(coll) ==
    IF ~coll.exists \/ Count(coll) = 0
    THEN {RagEnv(c, Ok, TRUE, <<>>, Ok, p) : c \in BOOLEAN, p \in GenOutcomes}
    ELSE {RagEnv(FALSE, Ok, TRUE, <<>>, Ok, p) : p \in GenOutcomes}
         \cup {RagEnv(TRUE, e, FALSE, <<>>, Ok, p) :
                  e \in EmbedOutcomes, p \in GenOutcomes}
         \cup {RagEnv(TRUE, Ok, TRUE, r, Ok, Ok) : r \in Rankings(coll, top_k)}
         \cup {RagEnv(TRUE, Ok, TRUE, r, g, p) :
                  r \in Rankings(coll, top_k),
                  g \in GroundedErrors, p \in GenOutcomes}

\* a JWT: its payload and the key it is signed with
Token(user_id, exp, key) == [user_id |-> user_id, exp |-> exp, key |-> key]
NoToken == Token(0, 0, "")
NoFile == [filename |-> "", words |-> {}]

-----------------------------------------------------------------------------
(* The completed call *)

Last(op, user, arg, raised, text, source, sources, calls, embedCalls, queryCalls) ==
    [op |-> op, user |-> user, arg |-> arg, raised |-> raised, text |-> text,
     source |-> source, sources |-> sources, calls |-> calls,
     embedCalls |-> embedCalls, queryCalls |-> queryCalls, count |-> 0,
     ranked |-> <<>>, content |-> TxtEmpty, status |-> 0, token |-> NoToken,
     file |-> NoFile]

\* count: what collection.count() gave for the user before the call
CountedBefore(l, coll) == [l EXCEPT !.count = Count(coll)]

\* ranked: what search_relevant_chunks gave the call (<<>> if not reached)
Ranked(l, relevant_chunks) == [l EXCEPT !.ranked = relevant_chunks]

\* content: the text the call was given
Given(l, content) == [l EXCEPT !.content = content]

\* status: the HTTP status of the response; token: the bearer token of the
\* request, or the access_token of the response; file: the uploaded file
Responded(l, status, token, file) ==
    [l EXCEPT !.status = status, !.token = token, !.file = file]

NoCall == Last("none", "", 0, FALSE, NoText, "none", <<>>, <<>>, 0, 0)

\* the threads that may run add_document at the same time; an idle thread
\* runs no call
Threads == {1, 2}
Thread(pc, user_id, up, found, raised, content_id) ==
    [pc |-> pc, user_id |-> user_id, up |-> up, found |-> found,
     raised |-> raised, content_id |-> content_id]
Idle == Thread("idle", "", Upload(TxtEmpty, "", ""), FALSE, FALSE, 0)

\* no call of a pure method is under way
NoFrame == [fn |-> "none", pc |-> "none"]

\* main.py: no ./chroma_db_<user> directory yet; files: the uploads whose
\* chunks the store in the directory holds
NoDir == [exists |-> FALSE, files |-> {}]

-----------------------------------------------------------------------------
(* rag_pipeline.py *)

\* the process has just started: nothing stored, no call made
Started ==
    /\ collections = [u \in Users |-> NoCollection]
    /\ nextUuid = 0
    /\ user_documents = [u \in Users |-> <<>>]
    /\ chroma_dirs = [u \in Users |-> NoDir]
    /\ vector_store = [u \in Users |-> 0]
    /\ uploaded_content = <<>>
    /\ clock = 0
    /\ users_db = <<>>
    /\ tokens_db = <<>>
    /\ last = NoCall
    /\ threads = [t \in Threads |-> Idle]

\* RAGPipeline.__init__ raises without GEMINI_API_KEY: the model is configured
Init == Started /\ gemini_model = TRUE /\ frame = NoFrame

\* every user id names the collection of the first user
CollectionOf_shared(user_id) ==
    IF user_id \in Users THEN collections["u1"] ELSE NoCollection

\* the collection named f"user_{user_id}"; "" names no stored collection
CollectionOf(user_id) ==
    IF user_id \in Users THEN collections[user_id] ELSE NoCollection

\* the caller takes the result; the next call starts after it
Return ==
    /\ last # NoCall
    /\ last' = NoCall
    /\ UNCHANGED <<collections, nextUuid, gemini_model, user_documents,
                   chroma_dirs, vector_store, uploaded_content, clock, threads, frame,
                   users_db, tokens_db>>

AddDocument ==
    /\ last = NoCall
    /\ nextUuid < MaxDocs
    /\ \E user_id \in Users \cup {""}, up \in Uploads :
         /\ Count(CollectionOf(user_id)) + Len(chunk_text(up.content)) <= MaxChunks
         /\ \E env \in AddEnvs(Len(chunk_text(up.content))) :
              LET r == add_document(user_id, up.content, up.source,
                                    up.content_type, CollectionOf(user_id),
                                    nextUuid + 1, env)
              IN  /\ collections' = IF user_id \in Users
                                    THEN [collections EXCEPT ![user_id] = r.coll]
                                    ELSE collections
                  /\ nextUuid' = IF r.content_id # 0 THEN nextUuid + 1 ELSE nextUuid
                  /\ last' = Given(CountedBefore(
                                       Last("add_document", user_id, r.content_id,
                                            r.raised, NoText, "none", <<>>, <<>>,
                                            r.embedCalls, 0),
                                       CollectionOf(user_id)),
                                   up.content)
    /\ UNCHANGED <<gemini_model, user_documents, chroma_dirs, vector_store,
                   uploaded_content, clock, threads, frame,
                   users_db, tokens_db>>

DeleteDocument ==
    /\ last = NoCall
    /\ \E user_id \in Users, content_id \in 1..(MaxDocs + 1) :
         LET r == delete_document(CollectionOf(user_id), content_id)
         IN  /\ collections' = [collections EXCEPT ![user_id] = r.coll]
             /\ last' = CountedBefore(
                            Last("delete_document", user_id, content_id, r.raised,
                                 NoText, "none", <<>>, <<>>, 0, 0),
                            CollectionOf(user_id))
    /\ UNCHANGED <<nextUuid, gemini_model, user_documents, chroma_dirs,
                   vector_store, uploaded_content, clock, threads, frame,
                   users_db, tokens_db>>

\* of the index calls of the query path (get_collection, count, query) only
\* the lookup could leave the set of collections changed
GenerateRagResponse ==
    /\ last = NoCall
    /\ \E user_id \in Users, query \in Queries :
         \E env \in RagEnvs(CollectionOf(user_id)) :
            LET r == generate_rag_response(query, CollectionOf(user_id), env)
            IN  /\ last' = Ranked(CountedBefore(
                                        Last("generate_rag_response", user_id,
                                             query, r.raised, r.text, "none",
                                             r.sources, r.calls, r.embedCalls,
                                             r.queryCalls),
                                        CollectionOf(user_id)),
                                     IF r.queryCalls = 0 THEN <<>>
                                     ELSE search_relevant_chunks(
                                              CollectionOf(user_id), query,
                                              env).chunks)
                /\ collections' =
                      [collections EXCEPT
                          ![user_id] = get_user_collection(@).coll]
    /\ UNCHANGED <<nextUuid, gemini_model, user_documents, chroma_dirs,
                   vector_store, uploaded_content, clock, threads, frame,
                   users_db, tokens_db>>

Next == AddDocument \/ DeleteDocument \/ GenerateRagResponse \/ Return

Spec == Init /\ [][Next]_vars

-----------------------------------------------------------------------------
(* rag_pipeline.py, add_document called from two threads.  The calls of the
   chroma client are the steps that interleave. *)

RaceUploads == {Upload(TxtSky, "sky.txt", "file"),
                Upload(TxtLong, "http://long", "url"),
                Upload(TxtTiny, "tiny.txt", "file")}

\* add_document up to its first use of the index: the inputs are validated
\* and get_user_collection looks the collection up
ThreadCall(t) ==
    /\ threads[t].pc = "idle"
    /\ nextUuid + Cardinality({o \in Threads : threads[o].pc \in {"create", "add"}})
          < MaxDocs
    /\ \E user_id \in Users, up \in RaceUploads :
         threads' = [threads EXCEPT ![t] =
            IF up.content.len = 0 \/ strip(up.content).len < 10 \/ user_id = ""
            THEN Thread("done", user_id, up, FALSE, TRUE, 0)
            ELSE IF collections[user_id].exists
            THEN Thread("add", user_id, up, TRUE, FALSE, 0)
            ELSE Thread("create", user_id, up, FALSE, FALSE, 0)]
    /\ UNCHANGED <<collections, nextUuid, gemini_model, user_documents,
                   chroma_dirs, vector_store, uploaded_content, clock, last,
                   frame,
                   users_db, tokens_db>>

\* the except branch: create_user_collection, then get_user_collection
ThreadCreate(t) ==
    /\ threads[t].pc = "create"
    /\ LET user_id == threads[t].user_id
           r == create_user_collection(collections[user_id], TRUE)
       IN  /\ collections' = [collections EXCEPT ![user_id] = r.coll]
           /\ threads' = [threads EXCEPT ![t] =
                             IF r.raised
                             THEN [@ EXCEPT !.pc = "done", !.raised = TRUE]
                             ELSE [@ EXCEPT !.pc = "add"]]
    /\ UNCHANGED <<nextUuid, gemini_model, user_documents, chroma_dirs,
                   vector_store, uploaded_content, clock, last, frame,
                   users_db, tokens_db>>

\* chunk_text, generate_embeddings, uuid4 and collection.add
ThreadAdd(t) ==
    /\ threads[t].pc = "add"
    /\ LET user_id == threads[t].user_id
           up == threads[t].up
           n == Len(chunk_text(up.content))
           r == add_document(user_id, up.content, up.source, up.content_type,
                             collections[user_id], nextUuid + 1,
                             AddEnv(TRUE, TRUE, [i \in 1..n |-> Ok]))
       IN  /\ collections' = [collections EXCEPT ![user_id] = r.coll]
           /\ nextUuid' = nextUuid + 1
           /\ threads' = [threads EXCEPT ![t] =
                             [@ EXCEPT !.pc = "done", !.raised = r.raised,
                                       !.content_id = r.content_id]]
    /\ UNCHANGED <<gemini_model, user_documents, chroma_dirs, vector_store,
                   uploaded_content, clock, last, frame,
                   users_db, tokens_db>>

\* the caller of a finished call takes its result, once no call is running
ThreadReturn(t) ==
    /\ threads[t].pc = "done"
    /\ \A o \in Threads : threads[o].pc \in {"idle", "done"}
    /\ threads' = [threads EXCEPT ![t] = Idle]
    /\ UNCHANGED <<collections, nextUuid, gemini_model, user_documents,
                   chroma_dirs, vector_store, uploaded_content, clock, last,
                   frame,
                   users_db, tokens_db>>

NextRace == \E t \in Threads :
               ThreadCall(t) \/ ThreadCreate(t) \/ ThreadAdd(t) \/ ThreadReturn(t)

SpecRace == Init /\ [][NextRace]_vars

-----------------------------------------------------------------------------
(* rag_pipeline.py, chunk_text followed through its loop *)

MaxMarks == 2      \* '.' and ' ' characters placed in an input text

\* the lengths of the input texts and the positions that may hold a '.' or
\* a ' ': around the ends and the middles of the windows
Lengths == {0, 12, 1000, 1001, 1300, 1801, 2500}
Marks == {0, 11, 500, 501, 600, 799, 800, 999, 1000, 1100, 1300, 1301, 1799,
          2200}

MarkSets == {m \in SUBSET Marks : Cardinality(m) <= MaxMarks}

\* texts that are whitespace for long stretches
RunTexts == {Text(1001, {}, 601..1000), Text(1400, {}, 0..1399),
             Text(1300, {}, 5..1299), Text(12, {}, {0, 1, 2, 9, 10, 11}),
             Text(3, {}, {0, 1, 2})}

\* the texts of length n with the marks m, each a '.' or a ' '
TextsOf(n, m) == {Text(n, d, m \ d) : d \in SUBSET m}

TextsOfLen(n) ==
    UNION {TextsOf(n, m) : m \in {k \in MarkSets : \A q \in k : q < n}}

Texts == UNION {TextsOfLen(n) : n \in Lengths} \cup RunTexts

Frame(pc, text, start, chunks, windows) ==
    [fn |-> "chunk_text", pc |-> pc, text |-> text, start |-> start,
     chunks |-> chunks, windows |-> windows]

\* chunk_text is called with a text: `if len(text) <= self.chunk_size:
\* return [text]`, else the loop is entered with start = 0
ChunkEnter ==
    /\ frame.fn = "none"
    /\ \E text \in Texts :
         frame' = IF text.len <= chunk_size
                  THEN Frame("done", text, 0, <<text>>, <<>>)
                  ELSE Frame("loop", text, 0, <<>>, <<>>)
    /\ UNCHANGED <<collections, nextUuid, gemini_model, user_documents,
                   chroma_dirs, vector_store, uploaded_content, clock, last,
                   threads,
                   users_db, tokens_db>>

\* the loop test and one pass of the body; windows: the windows cut so far
ChunkStep ==
    /\ frame.fn = "chunk_text" /\ frame.pc = "loop"
    /\ frame' =
          IF ~(frame.start < frame.text.len)
          THEN [frame EXCEPT !.pc = "done"]
          ELSE LET b == loop_body(frame.text, frame.start, frame.chunks)
               IN  [frame EXCEPT
                       !.chunks = b.chunks,
                       !.windows = Append(@, [start |-> frame.start,
                                              end |-> b.end,
                                              kept |-> b.chunks # frame.chunks]),
                       !.start = b.start,
                       !.pc = IF b.start >= frame.text.len THEN "done" ELSE "loop"]
    /\ UNCHANGED <<collections, nextUuid, gemini_model, user_documents,
                   chroma_dirs, vector_store, uploaded_content, clock, last,
                   threads,
                   users_db, tokens_db>>

NextChunk == ChunkEnter \/ ChunkStep

SpecChunk == Init /\ [][NextChunk]_vars

-----------------------------------------------------------------------------
(* rag_pipeline.py, generate_embeddings on a batch of texts *)

MaxBatch == 3      \* texts in one batch

EmbedTexts == {TxtSky, TxtTiny}
Batches == UNION {[1..n -> EmbedTexts] : n \in 0..MaxBatch}

\* what genai.embed_content may do for one text of the batch
EmbedResults == {Ok, ErrQuota, Err429, ErrUnknown}

\* the module is imported with or without the sentence-transformers package
Loaded(available) ==
    [fn |-> "none", pc |-> "none", SENTENCE_TRANSFORMERS_AVAILABLE |-> available]

InitEmbed ==
    /\ Started /\ gemini_model = TRUE
    /\ \E available \in BOOLEAN : frame = Loaded(available)

GenerateEmbeddings ==
    /\ frame.fn = "none"
    /\ \E texts \in Batches :
         \E outs \in [1..Len(texts) -> EmbedResults] :
            LET r == generate_embeddings(texts, outs)
            IN  frame' = [fn |-> "generate_embeddings", pc |-> "done",
                          SENTENCE_TRANSFORMERS_AVAILABLE |->
                              frame.SENTENCE_TRANSFORMERS_AVAILABLE,
                          texts |-> texts, outs |-> outs,
                          raised |-> r.raised, embeddings |-> r.embeddings,
                          sent |-> r.sent, tiers |-> r.tiers]
    /\ UNCHANGED <<collections, nextUuid, gemini_model, user_documents,
                   chroma_dirs, vector_store, uploaded_content, clock, last,
                   threads,
                   users_db, tokens_db>>

\* the caller takes the vectors
EmbedReturn ==
    /\ frame.fn = "generate_embeddings"
    /\ frame' = Loaded(frame.SENTENCE_TRANSFORMERS_AVAILABLE)
    /\ UNCHANGED <<collections, nextUuid, gemini_model, user_documents,
                   chroma_dirs, vector_store, uploaded_content, clock, last,
                   threads,
                   users_db, tokens_db>>

NextEmbed == GenerateEmbeddings \/ EmbedReturn

SpecEmbed == InitEmbed /\ [][NextEmbed]_vars

-----------------------------------------------------------------------------
(* main.py *)

\* what the generation service does at the calls of one HTTP request
ChatGen == {Ok, ErrApiKey, ErrQuota, ErrTimeout}
ChatGens == [1..MaxCalls -> ChatGen]

\* HTTPException(500, "... not configured"), raised by the handlers themselves
ErrNotConfigured == [text |-> "500: Gemini API not configured", marks |-> {}]

\* an uploaded file: its name and the words of its text; a message: its words
File(filename, words) == [filename |-> filename, words |-> words]
MainFiles == {File("alpha.txt", {"alpha", "common"}),
              File("beta.txt", {"beta", "common"})}
BadFiles == {File("picture.png", {})}
Messages == {{"alpha"}, {"gamma"}}

Http(raised, text, source, sources, calls) ==
    [raised |-> raised, text |-> text, source |-> source, sources |-> sources,
     calls |-> calls]

\* gemini_model.generate_content(prompt): the next call of the request
generate_content(prompt, calls, gen) ==
    Append(calls, Call(prompt, gen[Len(calls) + 1]))

Answered(calls) == calls[Len(calls)].result = Ok
Raised(calls) == calls[Len(calls)].result

\* main.chat_general
main_chat_general(message, configured, gen) ==
    IF ~configured
    THEN Http(FALSE, WithRaw("technical_difficulties", ErrNotConfigured),
              "error", <<>>, <<>>)
    ELSE LET calls == generate_content(PlainPrompt(message), <<>>, gen)
         IN  IF Answered(calls)
             THEN Http(FALSE, Generated(1), "general", <<>>, calls)
             ELSE Http(FALSE, WithRaw("technical_difficulties", Raised(calls)),
                       "error", <<>>, calls)

\* the `except Exception as e` clause that ends chat_rag and query_documents
main_rag_except(message, e, calls, configured, gen) ==
    IF configured
    THEN LET again == generate_content(PlainPrompt(message), calls, gen)
         IN  IF Answered(again)
             THEN Http(FALSE, Generated(Len(again)), "general", <<>>, again)
             ELSE Http(TRUE, NoText, "none", <<>>, again)
    ELSE Http(FALSE, WithRaw("could_not_query", e), "error", <<>>, calls)

\* `response = gemini_model.generate_content(message); return {.. "general"}`
\* inside the try block
main_general(message, calls, configured, gen) ==
    LET made == generate_content(PlainPrompt(message), calls, gen)
    IN  IF Answered(made)
        THEN Http(FALSE, Generated(Len(made)), "general", <<>>, made)
        ELSE main_rag_except(message, Raised(made), made, configured, gen)

\* the documents whose text holds a word of the message, in stored order
relevant_content(docs, message) ==
    SelectSeq(docs, LAMBDA d : d.words \cap message # {})

FirstN(seq, n) == IF Len(seq) <= n THEN seq ELSE SubSeq(seq, 1, n)

\* main.chat_rag, after the vector search gave no answer: keyword search
main_text_search(message, docs, calls, configured, gen) ==
    LET found == relevant_content(docs, message)
        context == [i \in 1..Len(FirstN(found, retriever_k)) |-> found[i].filename]
        made == generate_content(GroundedPrompt(message, context), calls, gen)
    IN  IF found # <<>>
        THEN IF Answered(made)
             THEN Http(FALSE, Generated(Len(made)), "documents", found, made)
             ELSE main_rag_except(message, Raised(made), made, configured, gen)
        ELSE main_general(message, calls, configured, gen)

\* main.chat_rag.  env.retrieve: whether the retriever answers (ok) and the
\* chunks it returns (docs, each named by the file it was cut from); env.gen:
\* the generation outcomes
main_chat_rag(message, docs, dir, configured, env) ==
    IF ~configured
    THEN main_rag_except(message, ErrNotConfigured, <<>>, configured, env.gen)
    ELSE IF docs = <<>>
    THEN main_general(message, <<>>, configured, env.gen)
    ELSE IF dir.exists /\ env.retrieve.ok /\ env.retrieve.docs # <<>>
    THEN LET made == generate_content(GroundedPrompt(message, env.retrieve.docs),
                                      <<>>, env.gen)
         IN  IF Answered(made)
             THEN Http(FALSE, Generated(1), "documents", env.retrieve.docs, made)
             ELSE main_text_search(message, docs, made, configured, env.gen)
    ELSE main_text_search(message, docs, <<>>, configured, env.gen)

\* main.query_documents
main_query_documents(message, dir, configured, env) ==
    IF ~configured
    THEN main_rag_except(message, ErrNotConfigured, <<>>, configured, env.gen)
    ELSE IF ~dir.exists
    THEN main_general(message, <<>>, configured, env.gen)
    ELSE IF ~env.retrieve.ok
    THEN main_rag_except(message, ErrUnknown, <<>>, configured, env.gen)
    ELSE IF env.retrieve.docs = <<>>
    THEN main_general(message, <<>>, configured, env.gen)
    ELSE LET made == generate_content(GroundedPrompt(message, env.retrieve.docs),
                                      <<>>, env.gen)
         IN  IF Answered(made)
             THEN Http(FALSE, Generated(1), "documents", env.retrieve.docs, made)
             ELSE main_rag_except(message, Raised(made), made, configured, env.gen)

\* what the retriever (k = 3) may return from a store: nothing from an empty
\* store, else the files its chunks were cut from, nearest first
Retrieval(ok, docs) == [ok |-> ok, docs |-> docs]

Retrievals(dir) ==
    IF ~dir.exists THEN {Retrieval(TRUE, <<>>)}
    ELSE IF dir.files = {} THEN {Retrieval(FALSE, <<>>), Retrieval(TRUE, <<>>)}
    ELSE {Retrieval(FALSE, <<>>)} \cup
         {Retrieval(TRUE, d) :
             d \in UNION {{f \in [1..n -> dir.files] :
                              \A i, j \in 1..n : i # j => f[i] # f[j]} :
                             n \in 1..retriever_k}}

ChatEnvs(dir) ==
    {[retrieve |-> r, gen |-> g] : r \in Retrievals(dir), g \in ChatGens}

\* main.upload_document.  store: "ok", or the vector storage fails "before"
\* or "after" the directory is created
main_upload_document(file, docs, dir, store) ==
    IF file \in BadFiles
    THEN [status |-> "error", docs |-> docs, dir |-> dir]
    ELSE [status |-> "success",
          docs |-> Append(docs, file),
          dir |-> IF store = "ok"
                  THEN [exists |-> TRUE, files |-> dir.files \cup {file.filename}]
                  ELSE IF store = "after" THEN [dir EXCEPT !.exists = TRUE]
                  ELSE dir]

\* main.delete_content
main_delete_content(filename, docs) ==
    SelectSeq(docs, LAMBDA d : d.filename # filename)

HttpLast(op, user, arg, r) ==
    Last(op, user, arg, r.raised, r.text, r.source, r.sources, r.calls, 0, 0)

\* the process starts with or without GEMINI_API_KEY
InitHttp == Started /\ gemini_model \in BOOLEAN /\ frame = NoFrame

MainChatGeneral ==
    /\ last = NoCall
    /\ \E message \in Messages, gen \in ChatGens :
         last' = HttpLast("chat_general", "", message,
                          main_chat_general(message, gemini_model, gen))
    /\ UNCHANGED <<collections, nextUuid, gemini_model, user_documents,
                   chroma_dirs, vector_store, uploaded_content, clock, threads, frame,
                   users_db, tokens_db>>

MainChatRag ==
    /\ last = NoCall
    /\ \E user \in Users, message \in Messages :
         \E env \in ChatEnvs(chroma_dirs[user]) :
            last' = HttpLast("chat_rag", user, message,
                             main_chat_rag(message, user_documents[user],
                                           chroma_dirs[user], gemini_model, env))
    /\ UNCHANGED <<collections, nextUuid, gemini_model, user_documents,
                   chroma_dirs, vector_store, uploaded_content, clock, threads, frame,
                   users_db, tokens_db>>

MainQueryDocuments ==
    /\ last = NoCall
    /\ \E user \in Users, message \in Messages :
         \E env \in ChatEnvs(chroma_dirs[user]) :
            last' = HttpLast("query_documents", user, message,
                             main_query_documents(message, chroma_dirs[user],
                                                  gemini_model, env))
    /\ UNCHANGED <<collections, nextUuid, gemini_model, user_documents,
                   chroma_dirs, vector_store, uploaded_content, clock, threads, frame,
                   users_db, tokens_db>>

MainUploadDocument ==
    /\ last = NoCall
    /\ \E user \in Users, file \in MainFiles \cup BadFiles,
          store \in {"ok", "before", "after"} :
         LET r == main_upload_document(file, user_documents[user],
                                       chroma_dirs[user],
                                       IF gemini_model THEN store ELSE "before")
         IN  /\ Len(user_documents[user]) < MaxUploads
             /\ user_documents' = [user_documents EXCEPT ![user] = r.docs]
             /\ chroma_dirs' = [chroma_dirs EXCEPT ![user] = r.dir]
             /\ last' = Last("upload_document", user, file.filename, FALSE,
                             Msg(r.status), "none", <<>>, <<>>, 0, 0)
    /\ UNCHANGED <<collections, nextUuid, gemini_model, vector_store,
                   uploaded_content, clock, threads, frame,
                   users_db, tokens_db>>

MainDeleteContent ==
    /\ last = NoCall
    /\ \E user \in Users, file \in MainFiles :
         /\ user_documents' =
               [user_documents EXCEPT
                   ![user] = main_delete_content(file.filename, @)]
         /\ last' = Last("delete_content", user, file.filename, FALSE,
                         Msg("success"), "none", <<>>, <<>>, 0, 0)
    /\ UNCHANGED <<collections, nextUuid, gemini_model, chroma_dirs,
                   vector_store, uploaded_content, clock, threads, frame,
                   users_db, tokens_db>>

NextMain == MainChatGeneral \/ MainChatRag \/ MainQueryDocuments
            \/ MainUploadDocument \/ MainDeleteContent \/ Return

SpecMain == InitHttp /\ [][NextMain]_vars

-----------------------------------------------------------------------------
(* working_main.py *)

MaxTime == 2       \* seconds the clock runs

\* the retry loop with `attempt == max_retries` as its last attempt: one more
\* call, which the service treats as it treated the one before
RECURSIVE retry_loop_one_more(_, _, _, _)
retry_loop_one_more(message, attempt, calls, gen) ==
    LET g == IF attempt + 1 > max_retries THEN gen[max_retries] ELSE gen[attempt + 1]
        made == Append(calls, Call(PlainPrompt(message), g))
    IN  IF g = Ok THEN made
        ELSE IF attempt = max_retries THEN made
        ELSE retry_loop_one_more(message, attempt + 1, made, gen)

\* `for attempt in range(max_retries)` around gemini_model.generate_content:
\* the calls made from attempt on, ending at the first answer or at the
\* attempt that re-raises
RECURSIVE retry_loop(_, _, _, _)
retry_loop(message, attempt, calls, gen) ==
    LET made == Append(calls, Call(PlainPrompt(message), gen[attempt + 1]))
    IN  IF gen[attempt + 1] = Ok THEN made
        ELSE IF attempt = max_retries - 1 THEN made
        ELSE retry_loop(message, attempt + 1, made, gen)

\* working_main.chat_general
working_chat_general(message, configured, gen) ==
    IF ~configured
    THEN Http(FALSE, Msg("try_again_shortly"), "general", <<>>, <<>>)
    ELSE LET calls == retry_loop(message, 0, <<>>, gen)
         IN  IF Answered(calls)
             THEN Http(FALSE, Generated(Len(calls)), "general", <<>>, calls)
             ELSE Http(FALSE, Msg("try_again_shortly"), "general", <<>>, calls)

\* the chunks the RetrievalQA chain stuffs into its prompt (k = 3)
Retrieved(count) ==
    [i \in 1..(IF count < retriever_k THEN count ELSE retriever_k) |-> i]

\* working_main.chat_rag.  count: chunks in the user's store; env.store_ok:
\* whether the store opens; env.chain: what the RetrievalQA chain's model
\* call does; env.gen: the outcomes of the fallback calls.
working_chat_rag(message, count, configured, env) ==
    IF ~configured
    THEN Http(FALSE, Msg("trouble_accessing_documents"), "documents", <<>>, <<>>)
    ELSE LET asked == <<Call(GroundedPrompt(message, Retrieved(count)), env.chain)>>
             rag_ok == env.store_ok /\ count # 0 /\ env.chain = Ok
             before == IF env.store_ok /\ count # 0 THEN asked ELSE <<>>
             calls == retry_loop(message, 0, before, env.gen)
         IN  IF rag_ok
             THEN Http(FALSE, Generated(1), "documents", <<>>, asked)
             ELSE IF Answered(calls)
             THEN Http(FALSE, Generated(Len(calls)), "general", <<>>, calls)
             ELSE Http(FALSE, Msg("trouble_accessing_documents"), "documents",
                       <<>>, calls)

\* the outcomes of the attempts one retry loop can make
WorkingGens == [1..max_retries -> ChatGen]

WorkingEnvs(count) ==
    IF count = 0
    THEN {[store_ok |-> s, chain |-> Ok, gen |-> g] :
             s \in BOOLEAN, g \in WorkingGens}
    ELSE {[store_ok |-> FALSE, chain |-> Ok, gen |-> g] : g \in WorkingGens}
         \cup {[store_ok |-> TRUE, chain |-> c, gen |-> g] :
                  c \in ChatGen, g \in WorkingGens}

\* dict assignment d[key] = value
Put(d, key, value) ==
    [k \in DOMAIN d \cup {key} |-> IF k = key THEN value ELSE d[k]]

WorkingFiles == {File("alpha.txt", {"alpha"}), File("empty.txt", {})}

\* working_main.upload_document.  now: int(time.time()); store_ok: whether
\* Chroma.from_documents succeeds
working_upload_document(file, user, count, uploaded, now, store_ok) ==
    IF file.words = {}
    THEN [raised |-> TRUE, count |-> count, uploaded |-> uploaded]
    ELSE IF store_ok
    THEN [raised |-> FALSE, count |-> count + 1, uploaded |-> uploaded]
    ELSE [raised |-> FALSE, count |-> count,
          uploaded |-> Put(uploaded, now,
                           [filename |-> file.filename, user_id |-> user])]

WorkingChatGeneral ==
    /\ last = NoCall
    /\ \E message \in Messages, gen \in WorkingGens :
         last' = HttpLast("chat_general", "", message,
                          working_chat_general(message, gemini_model, gen))
    /\ UNCHANGED <<collections, nextUuid, gemini_model, user_documents,
                   chroma_dirs, vector_store, uploaded_content, clock, threads, frame,
                   users_db, tokens_db>>

WorkingChatRag ==
    /\ last = NoCall
    /\ \E user \in Users, message \in Messages :
         \E env \in WorkingEnvs(vector_store[user]) :
            last' = HttpLast("chat_rag", user, message,
                             working_chat_rag(message, vector_store[user],
                                              gemini_model, env))
    /\ UNCHANGED <<collections, nextUuid, gemini_model, user_documents,
                   chroma_dirs, vector_store, uploaded_content, clock, threads, frame,
                   users_db, tokens_db>>

WorkingUploadDocument ==
    /\ last = NoCall
    /\ \E user \in Users, file \in WorkingFiles, store_ok \in BOOLEAN :
         LET r == working_upload_document(file, user, vector_store[user],
                                          uploaded_content, clock, store_ok)
         IN  /\ vector_store[user] < MaxUploads
             /\ vector_store' = [vector_store EXCEPT ![user] = r.count]
             /\ uploaded_content' = r.uploaded
             /\ last' = Last("upload_document", user, clock, r.raised,
                             NoText, "none", <<>>, <<>>, 0, 0)
    /\ UNCHANGED <<collections, nextUuid, gemini_model, user_documents,
                   chroma_dirs, clock, threads, frame,
                   users_db, tokens_db>>

\* a second passes
Tick ==
    /\ last = NoCall
    /\ clock < MaxTime
    /\ clock' = clock + 1
    /\ UNCHANGED <<collections, nextUuid, gemini_model, user_documents,
                   chroma_dirs, vector_store, uploaded_content, last, threads, frame,
                   users_db, tokens_db>>

NextWorking == WorkingChatGeneral \/ WorkingChatRag \/ WorkingUploadDocument
               \/ Tick \/ Return

SpecWorking == InitHttp /\ [][NextWorking]_vars

-----------------------------------------------------------------------------
(* simple_main.py: register, login, upload_file *)

MaxTokens == 2     \* tokens issued
token_days == 7
secret_key == "demo-secret-key"

Emails == {"a@example.com", "b@example.com"}
Passwords == {"testpass123", "other"}
\* secrets.token_hex(16)
Salts == {"5f2c"}

\* hashlib.sha256((password + salt).encode()).hexdigest(): equal digests for
\* equal password and salt only
sha256(password, salt) == <<password, salt>>

\* the stored f"{salt}:{password_hash}"
hash_password(password, salt) ==
    [salt |-> salt, password_hash |-> sha256(password, salt)]

verify_password(password, hashed_password) ==
    sha256(password, hashed_password.salt) = hashed_password.password_hash

\* jwt.encode of user_id and exp = utcnow() + 7 days, in seconds
create_token(user_id, now) ==
    Token(user_id, now + token_days * 86400, secret_key)

\* jwt.decode succeeds for a token signed with the key and not yet expired
verify_token(token, now) == token.key = secret_key /\ token.exp > now

\* a token no login gave out: signed with another key
ForgedToken == Token(1, token_days * 86400, "guessed")

Account(user_id, email, password) ==
    [user_id |-> user_id, email |-> email, password |-> password]

Auth(status, token, users, tokens) ==
    [status |-> status, token |-> token, users |-> users, tokens |-> tokens]

\* register without the `if email in users_db` test
simple_register_overwrites(email, password, salt, users, tokens, now) ==
    LET user_id == Cardinality(DOMAIN users) + 1
        token == create_token(user_id, now)
    IN  Auth(200, token,
             Put(users, email,
                 Account(user_id, email, hash_password(password, salt))),
             Put(tokens, token, user_id))

\* simple_main.register
simple_register(email, password, salt, users, tokens, now) ==
    IF email \in DOMAIN users
    THEN Auth(400, NoToken, users, tokens)
    ELSE LET user_id == Cardinality(DOMAIN users) + 1
             token == create_token(user_id, now)
         IN  Auth(200, token,
                  Put(users, email,
                      Account(user_id, email, hash_password(password, salt))),
                  Put(tokens, token, user_id))

\* simple_main.login
simple_login(email, password, users, tokens, now) ==
    IF email \notin DOMAIN users
    THEN Auth(401, NoToken, users, tokens)
    ELSE IF ~verify_password(password, users[email].password)
    THEN Auth(401, NoToken, users, tokens)
    ELSE LET token == create_token(users[email].user_id, now)
         IN  Auth(200, token, users, Put(tokens, token, users[email].user_id))

SimpleFiles == {File("final_test.txt", {"final"}), File("empty.txt", {}),
                File("", {"gamma"})}

\* simple_main.upload_file behind get_current_user.  now: int(time.time())
simple_upload_file(file, token, uploaded, now) ==
    IF ~verify_token(token, now)
    THEN [status |-> 401, content_id |-> 0, uploaded |-> uploaded]
    ELSE IF file.filename = ""
    THEN [status |-> 400, content_id |-> 0, uploaded |-> uploaded]
    ELSE IF file.words = {}
    THEN [status |-> 400, content_id |-> 0, uploaded |-> uploaded]
    ELSE [status |-> 200, content_id |-> now,
          uploaded |-> Put(uploaded, now,
                           [filename |-> file.filename,
                            user_id |-> token.user_id])]

SimpleRegister ==
    /\ last = NoCall
    /\ Cardinality(DOMAIN tokens_db) < MaxTokens
    /\ \E email \in Emails, password \in Passwords, salt \in Salts :
         LET r == simple_register(email, password, salt, users_db, tokens_db,
                                  clock)
         IN  /\ users_db' = r.users
             /\ tokens_db' = r.tokens
             /\ last' = Responded(Last("register", email, password,
                                       r.status # 200, NoText, "none", <<>>,
                                       <<>>, 0, 0),
                                  r.status, r.token, NoFile)
    /\ UNCHANGED <<collections, nextUuid, gemini_model, user_documents,
                   chroma_dirs, vector_store, uploaded_content, clock, threads,
                   frame>>

SimpleLogin ==
    /\ last = NoCall
    /\ Cardinality(DOMAIN tokens_db) < MaxTokens
    /\ \E email \in Emails, password \in Passwords :
         LET r == simple_login(email, password, users_db, tokens_db, clock)
         IN  /\ tokens_db' = r.tokens
             /\ last' = Responded(Last("login", email, password,
                                       r.status # 200, NoText, "none", <<>>,
                                       <<>>, 0, 0),
                                  r.status, r.token, NoFile)
    /\ UNCHANGED <<collections, nextUuid, gemini_model, user_documents,
                   chroma_dirs, vector_store, uploaded_content, clock, users_db,
                   threads, frame>>

\* the request carries a token some response gave out, or a forged one
SimpleUploadFile ==
    /\ last = NoCall
    /\ \E token \in DOMAIN tokens_db \cup {ForgedToken}, file \in SimpleFiles :
         LET r == simple_upload_file(file, token, uploaded_content, clock)
         IN  /\ clock \in DOMAIN uploaded_content
                   \/ Cardinality(DOMAIN uploaded_content) < MaxUploads
             /\ uploaded_content' = r.uploaded
             /\ last' = Responded(Last("upload_file", "", r.content_id,
                                       r.status # 200, NoText, "none", <<>>,
                                       <<>>, 0, 0),
                                  r.status, token, file)
    /\ UNCHANGED <<collections, nextUuid, gemini_model, user_documents,
                   chroma_dirs, vector_store, clock, users_db, tokens_db,
                   threads, frame>>

\* the seven days of a token pass
Week ==
    /\ last = NoCall
    /\ clock < token_days * 86400
    /\ clock' = clock + token_days * 86400
    /\ UNCHANGED <<collections, nextUuid, gemini_model, user_documents,
                   chroma_dirs, vector_store, uploaded_content, users_db,
                   tokens_db, last, threads, frame>>

\* a second passes
Second ==
    /\ last = NoCall
    /\ clock % (token_days * 86400) < MaxTime
    /\ clock' = clock + 1
    /\ UNCHANGED <<collections, nextUuid, gemini_model, user_documents,
                   chroma_dirs, vector_store, uploaded_content, users_db,
                   tokens_db, last, threads, frame>>

NextSimple == SimpleRegister \/ SimpleLogin \/ SimpleUploadFile \/ Week
              \/ Second \/ Return

\* the three handlers do not read gemini_model
InitSimple == Started /\ gemini_model = TRUE /\ frame = NoFrame

SpecSimple == InitSimple /\ [][NextSimple]_vars

-----------------------------------------------------------------------------
(* rag_pipeline.py, search_relevant_chunks called by itself on an index that
   is up.  collection.query ranks the stored chunks by the distance of their
   vectors to the query vector. *)

\* the stored chunks whose vector is the query vector: distance 0
Nearest(coll, vector) ==
    {i \in 1..Count(coll) : coll.chunks[i].embedding = vector}

\* a distance is defined between vectors of one dimension
Comparable(coll, vector) ==
    \A i \in 1..Count(coll) :
       Dimension(coll.chunks[i].embedding) = Dimension(vector)

\* the rankings collection.query may return for the vector: the chunks at
\* distance 0 come first and are left out only for others at distance 0;
\* the order of the others is the index's
RankingsFor(coll, vector) ==
    {r \in Rankings(coll, top_k) :
        LET at0(i) == r[i] \in Nearest(coll, vector)
        IN  /\ \A i, j \in 1..Len(r) : (i < j /\ at0(j)) => at0(i)
            /\ (\E p \in Nearest(coll, vector) :
                    \A i \in 1..Len(r) : r[i] # p)
                  => \A i \in 1..Len(r) : at0(i)}

\* the outcomes of the steps of one search: the embedding service answers
\* or raises for the query; collection.query raises for a query vector it
\* cannot compare with the stored ones, and ranks by distance otherwise
SearchEnvs(coll, query) ==
    UNION {LET vector == generate_embeddings(<<query>>, <<e>>).embeddings[1]
           IN  IF ~coll.exists
               THEN {RagEnv(TRUE, e, TRUE, <<>>, Ok, Ok)}
               ELSE IF ~Comparable(coll, vector)
               THEN {RagEnv(TRUE, e, FALSE, <<>>, Ok, Ok)}
               ELSE {RagEnv(TRUE, e, TRUE, r, Ok, Ok) :
                        r \in RankingsFor(coll, vector)}
           : e \in EmbedOutcomes}

SearchQueries == {TxtSky, TxtBlock}

SearchRelevantChunks ==
    /\ last = NoCall
    /\ \E user_id \in Users :
         \E query \in SearchQueries \cup
                        {CollectionOf(user_id).chunks[i].document :
                            i \in 1..Count(CollectionOf(user_id))} :
            \E env \in SearchEnvs(CollectionOf(user_id), query) :
               LET r == search_relevant_chunks(CollectionOf(user_id), query, env)
               IN  last' = Given(Ranked(CountedBefore(
                                            Last("search_relevant_chunks",
                                                 user_id, 0, FALSE, NoText,
                                                 "none", <<>>, <<>>,
                                                 r.embedCalls, r.queryCalls),
                                            CollectionOf(user_id)),
                                        r.chunks),
                                 query)
    /\ UNCHANGED <<collections, nextUuid, gemini_model, user_documents,
                   chroma_dirs, vector_store, uploaded_content, clock, threads,
                   frame,
                   users_db, tokens_db>>

NextSearch == AddDocument \/ SearchRelevantChunks \/ Return

SpecSearch == Init /\ [][NextSearch]_vars

-----------------------------------------------------------------------------
(* Claims *)

IsChat == last.op \in {"chat_general", "chat_rag", "query_documents"}
IsRag == last.op = "generate_rag_response"
IsDelete == last.op = "delete_document"

Failed(call) == call.result # Ok
IsPlain(call) == call.prompt.kind = "plain"
IsGrounded(call) == call.prompt.kind = "grounded"
PlainCalls == SelectSeq(last.calls, IsPlain)
LastCall == last.calls[Len(last.calls)]

\* C1: generate_rag_response never raises; whatever its steps do, it hands a
\* response text and a source list back to the caller.
Thm_C1 == IsRag => ~last.raised /\ last.text # NoText

\* a request in which the grounded call and then the plain call both failed
Wit_C1 == /\ IsRag
          /\ Len(last.calls) = 2
          /\ Failed(last.calls[1]) /\ Failed(last.calls[2])
          /\ ~last.raised

\* C2: every chat request of main.py ends in a normal response tagged
\* documents, general or error; no exception leaves the handler.
Cex_C2 == IsChat => ~last.raised /\ last.source \in {"documents", "general", "error"}

\* C3: a request whose plain generation failed terminally is tagged error,
\* never general or documents.
Cex_C3 == (IsChat /\ last.calls # <<>> /\ IsPlain(LastCall) /\ Failed(LastCall))
              => last.source = "error"

\* C4: a response is tagged documents only if a grounded generation call
\* over a non-empty retrieved context succeeded in that request and gave
\* the response text.
Cex_C4 == (IsChat /\ last.source = "documents")
              => /\ last.text.kind = "generated"
                 /\ last.text.call \in 1..Len(last.calls)
                 /\ IsGrounded(last.calls[last.text.call])
                 /\ last.calls[last.text.call].prompt.context # <<>>
                 /\ ~Failed(last.calls[last.text.call])

\* C5: no response text carries the raw text of an exception of the
\* generation service.
Cex_C5 == (\E i \in 1..Len(last.calls) : Failed(last.calls[i])) => last.text.raw = ""

\* C6: plain generation is attempted at most three times in a request; when
\* the first two attempts fail and the third answers, the response is the
\* third attempt's text, tagged general, with no error shown.
Thm_C6 == IsChat =>
          /\ Len(PlainCalls) <= 3
          /\ ((/\ Len(PlainCalls) = 3
               /\ Failed(PlainCalls[1]) /\ Failed(PlainCalls[2])
               /\ ~Failed(PlainCalls[3]))
              => (/\ ~last.raised
                  /\ last.text = Generated(Len(last.calls))
                  /\ LastCall = PlainCalls[3]
                  /\ last.source = "general"))

\* two failures, then the third attempt answers
Wit_C6 == /\ last.op = "chat_rag"
          /\ Len(PlainCalls) = 3
          /\ Failed(PlainCalls[1]) /\ Failed(PlainCalls[2])
          /\ ~Failed(PlainCalls[3])

\* C7: a generation call that failed with an auth or a quota error is not
\* made again in the same request.
IsAuthOrQuota(e) == has(e, "API key not valid") \/ has(e, "quota") \/ has(e, "429")
Cex_C7 == IsChat =>
          \A i \in 1..(Len(last.calls) - 1) :
             IsAuthOrQuota(last.calls[i].result)
                => last.calls[i + 1].prompt # last.calls[i].prompt

\* C8: for a user without a collection, or with an empty one,
\* generate_rag_response returns what plain generation gives for the raw
\* query, with no sources, and neither embeds the query nor queries the index.
Thm_C8 == (IsRag /\ (~collections[last.user].exists
                     \/ Count(collections[last.user]) = 0))
          => /\ ~last.raised
             /\ last.sources = <<>>
             /\ last.embedCalls = 0 /\ last.queryCalls = 0
             /\ Len(last.calls) = 1
             /\ last.calls[1].prompt = PlainPrompt(last.arg)
             /\ ~last.text.note
             /\ (~Failed(last.calls[1]) => last.text = Generated(1))
             /\ (Failed(last.calls[1]) => last.text.kind # "generated"
                                          /\ last.text.call = 0)

\* the collection exists and holds no chunk, and the plain call answered
Wit_C8 == /\ IsRag
          /\ collections[last.user].exists
          /\ Count(collections[last.user]) = 0
          /\ last.text = Generated(1)

ChunksOf(coll, content_id) ==
    {i \in 1..Count(coll) : coll.chunks[i].metadata.content_id = content_id}

\* every document in the collection is there with all its chunks
Whole(coll) ==
    \A i \in 1..Count(coll) :
       Cardinality(ChunksOf(coll, coll.chunks[i].metadata.content_id))
          = coll.chunks[i].metadata.total_chunks

\* C9: delete_document removes the chunks of the given content_id and no
\* other: the count drops by the size of that group, the other chunks stay
\* as they were, and what survives is whole documents.
Thm_C9 ==
    [][(last'.op = "delete_document" /\ ~last'.raised) =>
          LET before == collections[last'.user]
              after == collections'[last'.user]
              gone == ChunksOf(before, last'.arg)
          IN  /\ ChunksOf(after, last'.arg) = {}
              /\ Count(after) = Count(before) - Cardinality(gone)
              /\ \A i \in 1..Count(before) :
                    i \notin gone =>
                       \E j \in 1..Count(after) : after.chunks[j] = before.chunks[i]
              /\ Whole(after)
              /\ \A u \in Users \ {last'.user} : collections'[u] = collections[u]
      ]_vars

\* a document was deleted and another document of the user survives
Wit_C9 == /\ IsDelete /\ ~last.raised
          /\ Count(collections[last.user]) > 0
          /\ last.count > Count(collections[last.user])

NoneMatches(content_id) ==
    \A u \in Users : ChunksOf(collections[u], content_id) = {}

\* C10 as claimed: delete_document with a content_id that matches no stored
\* chunk returns normally and leaves every collection unchanged.
Cex_C10 ==
    [][(last'.op = "delete_document" /\ NoneMatches(last'.arg))
          => ~last'.raised /\ collections' = collections]_vars

\* C10 as amended: delete_document with a content_id that matches no stored
\* chunk leaves every collection unchanged; it returns normally when the
\* user has a collection and raises when the user has none.
Thm_C10 ==
    [][(last'.op = "delete_document" /\ NoneMatches(last'.arg))
          => /\ collections' = collections
             /\ (last'.raised <=> ~collections[last'.user].exists)]_vars

\* nothing matched in a collection that holds chunks, and the call returned
Wit_C10 == /\ IsDelete /\ ~last.raised
           /\ NoneMatches(last.arg)
           /\ Count(collections[last.user]) > 0
           /\ last.count = Count(collections[last.user])

\* C11: when two first ingestions for the same new user interleave (both
\* looked the collection up and found none), both add_document calls return
\* normally and the user's one collection holds the chunks of both documents.
Cex_C11 ==
    (/\ threads[1].pc = "done" /\ threads[2].pc = "done"
     /\ threads[1].user_id = threads[2].user_id
     /\ threads[1].up.content # TxtTiny /\ threads[2].up.content # TxtTiny
     /\ ~threads[1].found /\ ~threads[2].found)
    => /\ ~threads[1].raised /\ ~threads[2].raised
       /\ \A t \in Threads :
             Cardinality(ChunksOf(collections[threads[t].user_id],
                                  threads[t].content_id))
                = Len(chunk_text(threads[t].up.content))

ContentIds(coll) == {coll.chunks[i].metadata.content_id : i \in 1..Count(coll)}
Documents(coll) == {coll.chunks[i].document : i \in 1..Count(coll)}
SourcesOf(coll) == {coll.chunks[i].metadata.source : i \in 1..Count(coll)}

\* C12: the collections of different users stay apart.  A call made for one
\* user leaves every other user's collection as it was; add_document puts
\* into the caller's collection only chunks under its own, fresh content_id,
\* so no content_id is ever in two collections; and the context and the
\* sources of a grounded response are chunks of the asking user's collection.
Thm_C12 ==
    [][/\ \A u \in Users : u # last'.user => collections'[u] = collections[u]
       /\ \A a, b \in Users :
             a # b => ContentIds(collections'[a]) \cap ContentIds(collections'[b]) = {}
       /\ (last'.op = "add_document" /\ last'.user \in Users) =>
             LET before == collections[last'.user]
                 after == collections'[last'.user]
             IN  /\ Count(after) >= Count(before)
                 /\ SubSeq(after.chunks, 1, Count(before)) = before.chunks
                 /\ \A i \in (Count(before) + 1)..Count(after) :
                       /\ after.chunks[i].metadata.content_id = last'.arg
                       /\ \A u \in Users : last'.arg \notin ContentIds(collections[u])
       /\ last'.op = "generate_rag_response" =>
             /\ \A i \in 1..Len(last'.sources) :
                   last'.sources[i].source \in SourcesOf(collections[last'.user])
             /\ \A k \in 1..Len(last'.calls) :
                   \A i \in 1..Len(last'.calls[k].prompt.context) :
                      last'.calls[k].prompt.context[i]
                         \in Documents(collections[last'.user])
      ]_vars

\* a grounded response for a user while another user holds other documents
Wit_C12 == /\ IsRag /\ last.sources # <<>>
           /\ \E u \in Users \ {last.user} :
                 /\ Count(collections[u]) > 0
                 /\ Documents(collections[u]) \cap Documents(collections[last.user]) = {}

\* C13: the query path leaves the vector index as it found it: a call of
\* generate_rag_response creates no collection, also for a user who has
\* none, and adds or removes no chunk, whatever the call returns.
Thm_C13 == [][last'.op = "generate_rag_response" => collections' = collections]_vars

\* a query for a user without a collection, and a query that searched one
Wit_C13 == IsRag /\ ~collections[last.user].exists /\ Len(last.calls) = 1

ChunkDone == frame.fn = "chunk_text" /\ frame.pc = "done"
Long == frame.text.len > chunk_size
Trimmed(chunk) == 0 \notin chunk.spaces /\ (chunk.len - 1) \notin chunk.spaces

\* where the slice text[w.start:w.end] ends, and whether it holds a character
\* that is not whitespace
Clip(text, w) == IF w.end > text.len THEN text.len ELSE w.end
HasText(text, w) == lstrip_at(text, w.start) < Clip(text, w)

\* C14 as claimed: for a text longer than chunk_size chunk_text returns at
\* least 2 chunks, each non-empty and at most chunk_size long.
Cex_C14 ==
    (ChunkDone /\ Long) =>
       /\ Len(frame.chunks) >= 2
       /\ \A i \in 1..Len(frame.chunks) :
             frame.chunks[i].len > 0 /\ frame.chunks[i].len <= chunk_size

\* C14 as amended: for a text longer than chunk_size chunk_text cuts at
\* least 2 windows and returns one chunk for each window that holds a
\* character other than whitespace (so at least 2 chunks when the first two
\* windows do); every returned chunk is non-empty and at most chunk_size long.
Thm_C14 ==
    (ChunkDone /\ Long) =>
       /\ Len(frame.windows) >= 2
       /\ Len(frame.chunks) =
             Cardinality({i \in 1..Len(frame.windows) :
                             HasText(frame.text, frame.windows[i])})
       /\ ((HasText(frame.text, frame.windows[1])
            /\ HasText(frame.text, frame.windows[2])) => Len(frame.chunks) >= 2)
       /\ \A i \in 1..Len(frame.chunks) :
             frame.chunks[i].len > 0 /\ frame.chunks[i].len <= chunk_size

\* a long text whose second window is whitespace only: one chunk comes back
Wit_C14 == /\ ChunkDone /\ Long
           /\ Len(frame.windows) = 2 /\ Len(frame.chunks) = 1

\* the windows that gave a chunk, and the part of the text each chunk is
KeptWindows == SelectSeq(frame.windows, LAMBDA w : w.kept)
Span(text, w) == [from |-> lstrip_at(text, w.start),
                  to |-> rstrip_at(text, Clip(text, w))]

\* the stretch of the text between the k-th returned chunk and the next one
\* (before the first one for k = 0, after the last one for k = n)
Gap(text, spans, k) ==
    [from |-> IF k = 0 THEN 0 ELSE spans[k].to,
     to |-> IF k = Len(spans) THEN text.len ELSE spans[k + 1].from]

\* C15: chunk_text skips no character range.  The first window starts at 0,
\* each next window starts before the end of the one before it, the last
\* window reaches the end of the text, each returned chunk is its window
\* without the whitespace at its ends, and so every character that is not
\* whitespace lies inside a returned chunk: the text outside the returned
\* chunks is whitespace only.
Thm_C15 ==
    /\ frame.fn = "chunk_text" =>
          /\ (frame.windows # <<>> => frame.windows[1].start = 0)
          /\ \A i \in 1..(Len(frame.windows) - 1) :
                frame.windows[i + 1].start < frame.windows[i].end
    /\ (ChunkDone /\ ~Long) => frame.chunks = <<frame.text>>
    /\ (ChunkDone /\ Long) =>
          /\ frame.windows[Len(frame.windows)].end >= frame.text.len
          /\ Len(KeptWindows) = Len(frame.chunks)
          /\ \A k \in 1..Len(frame.chunks) :
                frame.chunks[k] = Slice(frame.text,
                                        Span(frame.text, KeptWindows[k]).from,
                                        Span(frame.text, KeptWindows[k]).to)
          /\ LET spans == [k \in 1..Len(KeptWindows) |->
                              Span(frame.text, KeptWindows[k])]
             IN  \A k \in 0..Len(spans) :
                    lstrip_at(frame.text, Gap(frame.text, spans, k).from)
                       >= Gap(frame.text, spans, k).to

\* three windows or more, one of them cut short at a sentence or word end
Wit_C15 == /\ ChunkDone /\ Len(frame.windows) >= 3
           /\ \E i \in 1..Len(frame.windows) :
                 /\ frame.windows[i].end < frame.text.len
                 /\ frame.windows[i].end - frame.windows[i].start < chunk_size

\* C16: chunk_text terminates.  Every pass of the loop moves the start of
\* the window strictly forward, and the pass that takes it to len(text) or
\* beyond is the last one: the loop makes fewer passes than the text has
\* characters.
Thm_C16 ==
    [][(frame.fn = "chunk_text" /\ frame.pc = "loop") =>
          /\ frame.start < frame.text.len
          /\ frame'.start > frame.start
          /\ Len(frame'.windows) = Len(frame.windows) + 1
          /\ Len(frame'.windows) <= frame.text.len
          /\ (frame'.pc = "done" <=> frame'.start >= frame.text.len)
          /\ (frame'.pc = "loop" <=> frame'.start < frame.text.len)]_vars

\* a call that went through the loop four times or more, one pass moving
\* the start by little more than 300
Wit_C16 == /\ ChunkDone /\ Len(frame.windows) >= 4
           /\ \E i \in 1..(Len(frame.windows) - 1) :
                 frame.windows[i + 1].start - frame.windows[i].start < 400

\* C17: every chunk chunk_text returns, for a text of any length, has no
\* whitespace at its ends and is not empty.
Cex_C17 ==
    ChunkDone => \A i \in 1..Len(frame.chunks) :
                    frame.chunks[i].len > 0 /\ Trimmed(frame.chunks[i])

EmbedDone == frame.fn = "generate_embeddings" /\ frame.pc = "done"
Items == 1..Len(frame.texts)
\* embed_content raised for item i, with or without a quota marker
QuotaAt(i) == frame.outs[i] # Ok /\ IsQuota(frame.outs[i])
OtherAt(i) == frame.outs[i] # Ok /\ ~IsQuota(frame.outs[i])
\* embed_content was called for item i: no earlier item ended the loop
Reached(i) == \A j \in 1..(i - 1) : ~OtherAt(j)

\* C18: generate_embeddings never fails and returns one vector per input
\* text, in the order of the inputs, whatever the remote service raised.
Thm_C18 ==
    EmbedDone =>
       /\ ~frame.raised
       /\ Len(frame.embeddings) = Len(frame.texts)
       /\ \A i \in Items :
             /\ frame.embeddings[i].of = frame.texts[i]
             /\ frame.embeddings[i].tier \in {"remote", "hash"}

\* a batch of three with different texts, a quota error and another error
Wit_C18 == /\ EmbedDone /\ Len(frame.texts) = 3
           /\ frame.texts[1] # frame.texts[2]
           /\ QuotaAt(1) /\ frame.outs[2] = Ok /\ OtherAt(3)

Cex_C20 ==
    (EmbedDone /\ \E i \in Items : OtherAt(i) /\ Reached(i)) =>
       /\ frame.tiers[1] = "remote"
       /\ frame.SENTENCE_TRANSFORMERS_AVAILABLE =>
             Len(frame.tiers) >= 2 /\ frame.tiers[2] = "local"

-----------------------------------------------------------------------------
(* Context assembly, validation and sources of rag_pipeline.py *)

GroundedCalls == SelectSeq(last.calls, IsGrounded)

RECURSIVE Total(_, _)
Total(context, i) ==
    IF i > Len(context) THEN 0 ELSE context[i].len + Total(context, i + 1)

\* C22: the context of the grounded prompt is a greedy prefix of the ranked
\* results: the first n chunks, each whole, of total length at most
\* max_context_length, n as large as the budget allows; the sources handed
\* back are those n chunks' sources in rank order; a request whose ranked
\* results give no context (the first one alone is over the budget) makes
\* only the plain call and hands back no sources.
Thm_C22 ==
    (IsRag /\ last.ranked # <<>>) =>
        IF GroundedCalls = <<>>
        THEN /\ last.ranked[1].content.len > max_context_length
             /\ last.sources = <<>>
             /\ Len(last.calls) = 1
        ELSE LET context == GroundedCalls[1].prompt.context
                 n == Len(context)
             IN  /\ Len(GroundedCalls) = 1
                 /\ n \in 1..Len(last.ranked)
                 /\ \A i \in 1..n : context[i] = last.ranked[i].content
                 /\ Total(context, 1) <= max_context_length
                 /\ n < Len(last.ranked) =>
                       Total(context, 1) + last.ranked[n + 1].content.len
                          > max_context_length
                 /\ last.sources # <<>> =>
                       last.sources = [i \in 1..n |-> SourceRef(last.ranked[i])]

\* C22 witness: three chunks were ranked, the third did not fit the budget,
\* and the grounded answer came back with the two sources of the prefix.
Wit_C22 ==
    /\ IsRag
    /\ Len(last.ranked) = 3
    /\ Len(last.sources) = 2
    /\ last.text = Generated(1)

Invalid(user_id, content) ==
    content.len = 0 \/ strip(content).len < 10 \/ user_id = ""

\* C24: add_document given an empty content, a content shorter than 10
\* characters once trimmed, or an empty user_id raises and leaves the index
\* as it was: no collection created, no chunk added, no content_id drawn, no
\* embedding requested.
Thm_C24 ==
    [][(last = NoCall /\ last'.op = "add_document"
           /\ Invalid(last'.user, last'.content)) =>
          /\ last'.raised
          /\ last'.embedCalls = 0
          /\ collections' = collections
          /\ nextUuid' = nextUuid]_vars

\* C24 witness: a content of 6 characters between blanks was refused for a
\* user who has no collection.
Wit_C24 ==
    /\ last.op = "add_document"
    /\ last.raised
    /\ last.content = TxtTiny
    /\ last.user \in Users
    /\ ~collections[last.user].exists

\* C27 as claimed: when the grounded call failed and the plain call that
\* followed answered, the text handed back is the plain call's text and
\* nothing else.
Cex_C27 ==
    (/\ IsRag
     /\ Len(last.calls) = 2
     /\ IsGrounded(last.calls[1]) /\ Failed(last.calls[1])
     /\ IsPlain(last.calls[2]) /\ ~Failed(last.calls[2])) =>
        last.text = Generated(2)

\* C29: generate_rag_response hands back sources exactly when the text it
\* hands back is the answer of the grounded call; every other path hands
\* back none.
Thm_C29 ==
    IsRag =>
        /\ last.sources # <<>> <=>
              /\ last.text.kind = "generated"
              /\ last.text.call \in 1..Len(last.calls)
              /\ IsGrounded(last.calls[last.text.call])
        /\ last.sources # <<>> => ~Failed(last.calls[last.text.call])
        /\ (GroundedCalls # <<>> /\ ~Failed(GroundedCalls[1])) =>
              last.sources # <<>>

\* C29 witness: a grounded answer came back with its sources.
Wit_C29 ==
    /\ IsRag
    /\ last.text = Generated(1)
    /\ IsGrounded(last.calls[1])
    /\ last.sources # <<>>

\* C21 as claimed: all vectors stored in one user's collection have the same
\* dimension.
Cex_C21 ==
    \A u \in Users :
       \A i, j \in 1..Count(collections[u]) :
          Dimension(collections[u].chunks[i].embedding)
             = Dimension(collections[u].chunks[j].embedding)

IsSearch == last.op = "search_relevant_chunks"

\* C23 as claimed: a search whose query text is the text of a chunk stored
\* for the user returns that chunk as its first result.
Cex_C23 ==
    (IsSearch /\ collections[last.user].exists
        /\ \E i \in 1..Count(collections[last.user]) :
              collections[last.user].chunks[i].document = last.content) =>
       /\ last.ranked # <<>>
       /\ last.ranked[1].content = last.content

\* C30 as claimed: every returned chunk after the first covers a character
\* position beyond the end of the window of the chunk returned before it.
Cex_C30 ==
    (ChunkDone /\ Long) =>
       \A k \in 2..Len(KeptWindows) :
          Span(frame.text, KeptWindows[k]).to
             > Clip(frame.text, KeptWindows[k - 1])

\* C30, amended: chunk_text cuts at most one redundant tail window.  A
\* window cut after one that ended before the end of the text reaches beyond
\* that end; after a window that reached the end of the text at most one
\* more window is cut, the last one, which starts chunk_overlap before that
\* window's end and holds at most the last chunk_overlap characters.
Thm_C30 ==
    (ChunkDone /\ Long) =>
       \A k \in 2..Len(frame.windows) :
          LET p == frame.windows[k - 1]
              w == frame.windows[k]
          IN  IF p.end < frame.text.len
              THEN Clip(frame.text, w) > p.end
              ELSE /\ k = Len(frame.windows)
                   /\ k >= 3 => frame.windows[k - 2].end < frame.text.len
                   /\ w.start = p.end - chunk_overlap
                   /\ frame.text.len - w.start <= chunk_overlap

\* C30 witness: the third window reached the end of a text of 2500
\* characters and a fourth one was cut and returned as a chunk.
Wit_C30 ==
    /\ ChunkDone
    /\ frame.text.len = 2500
    /\ Len(frame.windows) = 4
    /\ frame.windows[3].end >= frame.text.len
    /\ frame.windows[4].kept
    /\ Len(frame.chunks) = 4

\* the names of the files main.py holds for the user
Stored(user) ==
    {user_documents[user][i].filename : i \in 1..Len(user_documents[user])}

\* C28 as claimed: an answer of main.py generated from document context is
\* generated from documents the user still has: none of them was deleted.
Cex_C28 ==
    (/\ last.op \in {"chat_rag", "query_documents"}
     /\ last.text.kind = "generated"
     /\ last.text.call \in 1..Len(last.calls)
     /\ IsGrounded(last.calls[last.text.call])) =>
        \A i \in 1..Len(last.calls[last.text.call].prompt.context) :
           last.calls[last.text.call].prompt.context[i] \in Stored(last.user)

-----------------------------------------------------------------------------
(* Content ids and accounts of simple_main.py *)

Called(op) == last = NoCall /\ last'.op = op

\* C25 as claimed: an upload that succeeds gets a content_id no stored
\* upload has, and leaves every stored upload as it was.
Cex_C25 ==
    [][(Called("upload_file") /\ last'.status = 200) =>
          /\ last'.arg \notin DOMAIN uploaded_content
          /\ \A k \in DOMAIN uploaded_content :
                /\ k \in DOMAIN uploaded_content'
                /\ uploaded_content'[k] = uploaded_content[k]]_vars

Usable(file) == file.filename # "" /\ file.words # {}

\* C26: a registration with a new email succeeds and stores an account the
\* password of which verifies; a registration with a registered email is
\* answered 400 and no call changes or removes an account; a login with a
\* registered email and its password is answered 200 with a token that is
\* valid for the account; and an upload of a named, non-empty file carrying
\* a token that a response gave out and that has not expired is answered
\* 200 and stored for the token's user.
Thm_C26 ==
    [][/\ \A e \in DOMAIN users_db :
             e \in DOMAIN users_db' /\ users_db'[e] = users_db[e]
       /\ (Called("register") /\ last'.user \in DOMAIN users_db) =>
             /\ last'.status = 400
             /\ users_db' = users_db
             /\ tokens_db' = tokens_db
       /\ (Called("register") /\ last'.user \notin DOMAIN users_db) =>
             /\ last'.status = 200
             /\ last'.user \in DOMAIN users_db'
             /\ verify_password(last'.arg, users_db'[last'.user].password)
             /\ verify_token(last'.token, clock)
       /\ (/\ Called("login")
           /\ last'.user \in DOMAIN users_db
           /\ verify_password(last'.arg, users_db[last'.user].password)) =>
             /\ last'.status = 200
             /\ verify_token(last'.token, clock)
             /\ last'.token.user_id = users_db[last'.user].user_id
             /\ last'.token \in DOMAIN tokens_db'
       /\ (/\ Called("upload_file")
           /\ last'.token \in DOMAIN tokens_db
           /\ last'.token.exp > clock
           /\ Usable(last'.file)) =>
             /\ last'.status = 200
             /\ last'.arg \in DOMAIN uploaded_content'
             /\ uploaded_content'[last'.arg].user_id = last'.token.user_id
             /\ uploaded_content'[last'.arg].filename = last'.file.filename]_vars

\* C26 witness: with both emails registered, a named, non-empty file sent
\* later with a token of the second account was accepted and stored for it.
Wit_C26 ==
    /\ last.op = "upload_file"
    /\ last.status = 200
    /\ DOMAIN users_db = Emails
    /\ last.token \in DOMAIN tokens_db
    /\ last.token.user_id = 2
    /\ clock > 0
    /\ uploaded_content[last.arg].user_id = 2

====
